---- MODULE Spec2Model ----
(***************************************************************************)
(* A model of pgee (lib/index.js): an EventEmitter that republishes        *)
(* PostgreSQL LISTEN/NOTIFY.  The state is the PgEe instance (_connection, *)
(* _done, _channels, the EventEmitter listener table), the handlers it has *)
(* installed on connection handles, and the asynchronous work in flight    *)
(* (pool acquisitions and queries).  Every public method and every         *)
(* asynchronous callback is one action.                                    *)
(***************************************************************************)
EXTENDS Integers, Sequences, FiniteSets, TLC

\* ---------------------------------------------------------------- bounds
MaxQueries == 2      \* queries in flight at once
MaxConnecting == 1   \* pool acquisitions in flight at once
MaxListeners == 2    \* listeners in the table, attached or about to be
MaxRacing == 2       \* acquisitions in flight at once in SpecLifecycle

\* ---------------------------------------------------------------- values
NONE == "<none>"     \* JavaScript null/undefined where a value is absent

\* Channel arguments as the caller passes them: strings and null.
RawValues ==
  { [t |-> "string", v |-> "foo"],
    [t |-> "string", v |-> "null"],
    [t |-> "null",   v |-> ""] }

\* A coercion that turns null into the empty string.
ToStrEmpty(raw) == raw.v

\* channel + '' (string concatenation coerces the value)
ToStr(raw) ==
  IF raw.t = "null" THEN "null" ELSE raw.v

ChannelNames == { ToStr(r) : r \in RawValues }

\* Event names of the listener table: channels and the reserved names.
EventNames == ChannelNames \cup {"error", "connect", "listen", "unlisten"}

Listeners == {"f1"}                 \* listener functions
ListenerInputs == Listeners \cup {NONE}

ExtHandle == "ext"                  \* a pg.Client given to the constructor
PoolHandles == {"p1", "p2"}         \* clients of the pg connection pool
Handles == {ExtHandle} \cup PoolHandles

\* Values given to emit() as the message, and JSON.stringify of a value.
Messages == {"msg"}

Stringify(m) == "json(" \o m \o ")"

\* Payload texts a notification can carry: JSON texts and one that is not.
Payloads == { Stringify(m) : m \in Messages } \cup {"not json"}

ParseOk(s) == \E m \in Messages : Stringify(m) = s

Parse(s) == CHOOSE m \in Messages : Stringify(m) = s

\* Arguments of listen() and unlisten(): a bare value or an options object.
ListenArgs ==
  { [obj |-> FALSE, channel |-> r, listener |-> NONE, removeListeners |-> FALSE]
      : r \in RawValues }
  \cup
  { [obj |-> TRUE, channel |-> r, listener |-> l, removeListeners |-> FALSE]
      : r \in RawValues, l \in ListenerInputs }

UnlistenArgs ==
  { [obj |-> FALSE, channel |-> r, listener |-> NONE, removeListeners |-> FALSE]
      : r \in RawValues }
  \cup
  { [obj |-> TRUE, channel |-> r, listener |-> NONE, removeListeners |-> b]
      : r \in RawValues, b \in BOOLEAN }

\* ---------------------------------------------------------------- state
VARIABLES
  connection,   \* this._connection: a handle or NONE
  done,         \* this._done: the handle its release function returns, or NONE
  channels,     \* this._channels: sequence of channel names
  listeners,    \* EventEmitter table: event name -> sequence of listeners
  teardown,     \* handle the current this[_tearDownConnection] detaches from
  attached,     \* handles carrying this instance's error/notification handlers
  acquired,     \* pool handles acquired and not yet released
  connecting,   \* number of Postgresql.connect() calls in flight
  queries,      \* connection.query() calls in flight
  last,         \* what the most recent step did and reported
  scen,         \* progress of a listen/unlisten/listen/unlisten sequence
  session,      \* the database session: the channels it listens on
  track         \* one listen/unlisten call followed from issue to report

vars == <<connection, done, channels, listeners, teardown, attached, acquired,
          connecting, queries, last, scen, session, track>>

\* ---------------------------------------------------------------- helpers
\* Array.prototype.indexOf: 0-based position of the first match, or -1.
IndexOf(seq, c) ==
  IF \E i \in 1..Len(seq) : seq[i] = c
  THEN (CHOOSE i \in 1..Len(seq) : seq[i] = c /\ \A j \in 1..(i - 1) : seq[j] # c) - 1
  ELSE -1

Count(seq, c) == Cardinality({ i \in 1..Len(seq) : seq[i] = c })

\* A membership test that takes index 0 for "not found".
IsTrackedTruthy(chs, c) == IndexOf(chs, c) > 0

\* this._channels.indexOf(channel) !== -1
IsTracked(chs, c) == IndexOf(chs, c) # -1

\* A push without the duplicate check.
PushAlways(chs, c) == Append(chs, c)

\* if (this._channels.indexOf(channel) === -1) this._channels.push(channel)
PushIfAbsent(chs, c) ==
  IF IndexOf(chs, c) = -1 THEN Append(chs, c) ELSE chs

\* A splice that takes the 0-based index for a 1-based one.
SpliceOffByOne(chs, c) ==
  LET index == IndexOf(chs, c) IN
  IF index # -1
  THEN SubSeq(chs, 1, index + 1) \o SubSeq(chs, index + 3, Len(chs))
  ELSE chs

\* index = indexOf(channel); if (index !== -1) this._channels.splice(index, 1)
SpliceIfPresent(chs, c) ==
  LET index == IndexOf(chs, c) IN
  IF index # -1
  THEN SubSeq(chs, 1, index) \o SubSeq(chs, index + 2, Len(chs))
  ELSE chs

\* typeof listener === 'function'
IsFunction(l) == l \in Listeners

\* if (typeof listener === 'function') this.on(channel, listener)
AttachIfFunction(tbl, c, l) ==
  IF IsFunction(l) THEN [tbl EXCEPT ![c] = Append(@, l)] ELSE tbl

\* A removal that does not look at the flag.
RemoveAlways(tbl, c, removeListeners) == [tbl EXCEPT ![c] = <<>>]

\* if (removeListeners) this.removeAllListeners(channel)
RemoveIfAsked(tbl, c, removeListeners) ==
  IF removeListeners THEN [tbl EXCEPT ![c] = <<>>] ELSE tbl

\* this.removeAllListeners()
NoListeners == [e \in EventNames |-> <<>>]

RECURSIVE SumLen(_, _)
SumLen(tbl, es) ==
  IF es = {} THEN 0
  ELSE LET e == CHOOSE x \in es : TRUE IN Len(tbl[e]) + SumLen(tbl, es \ {e})

TotalListeners(tbl) == SumLen(tbl, EventNames)

PendingListeners(qs) ==
  Cardinality({ i \in 1..Len(qs) : qs[i].kind = "LISTEN" /\ IsFunction(qs[i].listener) })

\* Room for one more listener, counting those in-flight LISTENs will attach.
ListenerRoom == TotalListeners(listeners) + PendingListeners(queries) < MaxListeners

RemoveAt(seq, i) == SubSeq(seq, 1, i - 1) \o SubSeq(seq, i + 1, Len(seq))

\* EventEmitter.prototype.emit.call(context, event, message): every listener
\* of the event is called; an 'error' event without a listener is thrown.
EmitLocal(tbl, event, err) ==
  [via |-> "event", event |-> event, err |-> err, result |-> NONE,
   delivered |-> Len(tbl[event]),
   threw     |-> (event = "error" /\ Len(tbl[event]) = 0)]

\* A report that emits the event even when a callback was given.
CallbackOrEmitAlwaysEmits(tbl, cb, event, args) ==
  [EmitLocal(tbl, event, IF Len(args) >= 1 THEN args[1] ELSE NONE)
   EXCEPT !.result = IF Len(args) >= 2 THEN args[2] ELSE NONE]

\* _callbackOrEmit(context, callback, event, ...args): a callback function
\* is applied to the arguments after the event name; otherwise
\* EventEmitter.prototype.emit is applied to the event name and them.
CallbackOrEmit(tbl, cb, event, args) ==
  LET err    == IF Len(args) >= 1 THEN args[1] ELSE NONE
      result == IF Len(args) >= 2 THEN args[2] ELSE NONE
  IN IF cb
     THEN [via |-> "callback", event |-> NONE, err |-> err, result |-> result,
           delivered |-> 0, threw |-> FALSE]
     ELSE [EmitLocal(tbl, event, err) EXCEPT !.result = result]

NoReport ==
  [via |-> "none", event |-> NONE, err |-> NONE, result |-> NONE,
   delivered |-> 0, threw |-> FALSE]

NoQuery ==
  [kind |-> NONE, channel |-> NONE, listener |-> NONE, removeListeners |-> FALSE,
   payload |-> NONE]

\* No channel argument: the step was not a listen() or unlisten() call that
\* got as far as reading its argument.
NoRaw == [t |-> "none", v |-> ""]

\* The record of a step: the operation, its channel, the path taken, whether a
\* callback was given, the report made, the number of commands issued, the
\* query it completed, the channel argument as passed, and whether an
\* exception left the step.
Step(op, chan, path, cb, rep, issued, q) ==
  [op |-> op, chan |-> chan, path |-> path, cb |-> cb, rep |-> rep,
   issued |-> issued, q |-> q, twin |-> "none", released |-> NONE,
   payload |-> NONE, raw |-> NoRaw, threw |-> rep.threw]

\* connection.query(sql, [params,] callback): the command and what the
\* callback's closure holds of the call (the callback itself is drawn when the
\* query completes: nothing reads it earlier).
NewQuery(kind, c, l, rl, payload) ==
  [kind |-> kind, channel |-> c, listener |-> l, removeListeners |-> rl,
   payload |-> payload]

\* Whether a query of the same command and channel is in flight.
InFlight(qs, kind, c) == \E j \in 1..Len(qs) : qs[j].kind = kind /\ qs[j].channel = c

\* For a completing query: "pending" if a query of the same command and
\* channel is still in flight, "done" if the previous step was the successful
\* completion of such a query, "none" otherwise.
Twin(op, kind, c, rest) ==
  IF InFlight(rest, kind, c) THEN "pending"
  ELSE IF last.op = op /\ last.path = "ok" /\ last.chan = c /\ last.twin = "pending"
  THEN "done"
  ELSE "none"

NoScen == [step |-> 0, c |-> NONE, n |-> 0]

\* Progress through listen(c), unlisten(c), listen(c), unlisten(c), each
\* called once the previous call has reported success, started on a connected
\* instance with an empty registry and nothing in flight.  n counts the
\* commands issued.  Any other step abandons the sequence.
ScenCall(op, c, issued) ==
  LET adv == IF issued = 1 THEN 1 ELSE 2 IN
  IF op = "listen" /\ scen.step = 4 /\ scen.c = c
    THEN [step |-> 4 + adv, c |-> c, n |-> scen.n + issued]
  ELSE IF op = "unlisten" /\ scen.step \in {2, 6} /\ scen.c = c
    THEN [step |-> scen.step + adv, c |-> c, n |-> scen.n + issued]
  ELSE IF op = "listen" /\ channels = <<>> /\ queries = <<>> /\ connecting = 0
    THEN [step |-> adv, c |-> c, n |-> issued]
  ELSE NoScen

ScenDone(kind, c, ok) ==
  IF ok /\ scen.c = c
     /\ \/ kind = "LISTEN" /\ scen.step \in {1, 5}
        \/ kind = "UNLISTEN" /\ scen.step \in {3, 7}
  THEN [scen EXCEPT !.step = @ + 1]
  ELSE NoScen

\* ------------------------------------------------------- database session
\* The session is followed only in SpecSession; elsewhere it stays NoSession.
NoSession == [on |-> FALSE, listening |-> {}, ordered |-> TRUE]

NewSession == [on |-> TRUE, listening |-> {}, ordered |-> TRUE]

\* What the database session listens on once query i has completed: a
\* successful LISTEN adds its channel, a successful UNLISTEN removes it, a
\* failed command and pg_notify change nothing.  ordered records whether
\* every LISTEN and UNLISTEN so far completed before those issued after it.
SessionAfter(i, ok) ==
  LET q == queries[i] IN
  IF ~session.on THEN session
  ELSE [on |-> TRUE,
        listening |-> IF ok /\ q.kind = "LISTEN" THEN session.listening \cup {q.channel}
                      ELSE IF ok /\ q.kind = "UNLISTEN"
                      THEN session.listening \ {q.channel}
                      ELSE session.listening,
        ordered |-> session.ordered
                    /\ \A j \in 1..(i - 1) : queries[j].kind = "NOTIFY"]

\* --------------------------------------------------------- a followed call
\* One call is followed only in SpecLive; elsewhere track stays NoTrack.
NoTrack == [phase |-> "off", pos |-> 0, reports |-> 0]

IdleTrack == [phase |-> "idle", pos |-> 0, reports |-> 0]

\* A call that issues its command as query number pos may become the one
\* that is followed, if none is yet.
TrackIssue(pos) ==
  IF track.phase = "idle"
  THEN {track, [phase |-> "waiting", pos |-> pos, reports |-> 0]}
  ELSE {track}

\* Query i has completed: if it is the followed call's, count its report;
\* if it stood before it in the queue, the followed one moves up.
TrackDone(i, reported) ==
  IF track.phase # "waiting" THEN track
  ELSE IF i = track.pos
  THEN [phase |-> "reported", pos |-> 0,
        reports |-> track.reports + (IF reported THEN 1 ELSE 0)]
  ELSE IF i < track.pos THEN [track EXCEPT !.pos = @ - 1]
  ELSE track

\* ------------------------------------------------------------ constructor
\* new PgEe(options): with a pg.Client the connection is set up at once,
\* with connection options nothing is connected yet.
Init ==
  /\ \/ /\ connection = ExtHandle
        /\ teardown = ExtHandle
        /\ attached = {ExtHandle}
     \/ /\ connection = NONE
        /\ teardown = NONE
        /\ attached = {}
  /\ done = NONE
  /\ channels = <<>>
  /\ listeners = NoListeners
  /\ acquired = {}
  /\ connecting = 0
  /\ queries = <<>>
  /\ last = Step("new", NONE, "new", FALSE, NoReport, 0, NoQuery)
  /\ scen = NoScen
  /\ session = NoSession
  /\ track = NoTrack

\* ---------------------------------------------------------------- connect
\* connect(callback), with at most max acquisitions in flight.
ConnectUpTo(cb, max) ==
  /\ IF connection # NONE
     THEN /\ last' = Step("connect", NONE, "present", cb,
                          CallbackOrEmit(listeners, cb, "connect", <<>>), 0, NoQuery)
          /\ UNCHANGED connecting
     ELSE /\ connecting < max
          /\ connecting' = connecting + 1
          /\ last' = Step("connect", NONE, "acquiring", cb, NoReport, 0, NoQuery)
  /\ scen' = NoScen
  /\ UNCHANGED <<connection, done, channels, listeners, teardown, attached,
                 acquired, queries>>
  /\ UNCHANGED <<session, track>>

\* A connect that asks the pool for a client whether or not one is held.
ConnectAlwaysAcquires(cb) ==
  /\ connecting < MaxConnecting
  /\ connecting' = connecting + 1
  /\ last' = Step("connect", NONE, "acquiring", cb, NoReport, 0, NoQuery)
  /\ scen' = NoScen
  /\ UNCHANGED <<connection, done, channels, listeners, teardown, attached,
                 acquired, queries>>
  /\ UNCHANGED <<session, track>>

Connect(cb) == ConnectUpTo(cb, MaxConnecting)

\* The callback given to Postgresql.connect(): (err, connection, done).
ConnectDone(ok, cb) ==
  /\ connecting > 0
  /\ connecting' = connecting - 1
  /\ IF ~ok
     THEN /\ last' = Step("connectDone", NONE, "failed", cb,
                          CallbackOrEmit(listeners, cb, "error", <<"AcquireError">>),
                          0, NoQuery)
          /\ UNCHANGED <<connection, done, teardown, attached, acquired>>
     ELSE /\ PoolHandles \ acquired # {}
          /\ LET h == CHOOSE x \in PoolHandles \ acquired : TRUE IN
             /\ acquired' = acquired \cup {h}
             /\ done' = h
             /\ connection' = h
             /\ attached' = attached \cup {h}
             /\ teardown' = h
          /\ last' = Step("connectDone", NONE, "ok", cb,
                          CallbackOrEmit(listeners, cb, "connect", <<>>), 0, NoQuery)
  /\ scen' = NoScen
  /\ UNCHANGED <<channels, listeners, queries>>
  /\ UNCHANGED <<session, track>>

\* ----------------------------------------------------------------- listen
Listen(arg, cb) ==
  LET listener == IF arg.obj THEN arg.listener ELSE NONE
      channel  == ToStr(arg.channel)
  IN
  IF connection = NONE
  THEN /\ last' = Step("listen", NONE, "notConnected", cb,
                       CallbackOrEmit(listeners, cb, "error", <<"NotConnected">>),
                       0, NoQuery)
       /\ scen' = NoScen
       /\ UNCHANGED <<connection, done, channels, listeners, teardown, attached,
                      acquired, connecting, queries, session, track>>
  ELSE IF IsTracked(channels, channel)
  THEN /\ IsFunction(listener) => ListenerRoom
       /\ listeners' = AttachIfFunction(listeners, channel, listener)
       /\ last' = [Step("listen", channel, "present", cb,
                        CallbackOrEmit(listeners', cb, "listen", <<NONE, channel>>),
                        0, NoQuery)
                   EXCEPT !.q.listener = listener, !.raw = arg.channel]
       /\ scen' = ScenCall("listen", channel, 0)
       /\ UNCHANGED <<connection, done, channels, teardown, attached, acquired,
                      connecting, queries, session, track>>
  ELSE /\ Len(queries) < MaxQueries
       /\ IsFunction(listener) => ListenerRoom
       /\ queries' = Append(queries, NewQuery("LISTEN", channel, listener, FALSE, NONE))
       /\ last' = [Step("listen", channel, "issued", cb, NoReport, 1, NoQuery)
                   EXCEPT !.twin = IF InFlight(queries, "LISTEN", channel)
                                   THEN "pending" ELSE "none",
                          !.raw = arg.channel]
       /\ scen' = ScenCall("listen", channel, 1)
       /\ track' \in TrackIssue(Len(queries) + 1)
       /\ UNCHANGED <<connection, done, channels, listeners, teardown, attached,
                      acquired, connecting, session>>

\* A failure branch that reports the error and does not return.
ListenFailedFallsThrough(q, cb) ==
  /\ last' = Step("listenDone", q.channel, "failed", cb,
                  CallbackOrEmit(listeners, cb, "error", <<"QueryError">>), 0, q)
  /\ channels' = PushIfAbsent(channels, q.channel)
  /\ listeners' = AttachIfFunction(listeners, q.channel, q.listener)

\* if (err) return _callbackOrEmit(this, callback, 'error', err)
ListenFailed(q, cb) ==
  /\ last' = Step("listenDone", q.channel, "failed", cb,
                  CallbackOrEmit(listeners, cb, "error", <<"QueryError">>), 0, q)
  /\ UNCHANGED <<channels, listeners>>

\* No error: add the channel unless present, attach the listener, report.
ListenSucceeded(q, cb) ==
  /\ channels' = PushIfAbsent(channels, q.channel)
  /\ listeners' = AttachIfFunction(listeners, q.channel, q.listener)
  /\ last' = [Step("listenDone", q.channel, "ok", cb,
                   CallbackOrEmit(listeners', cb, "listen", <<NONE, q.channel>>),
                   0, q)
              EXCEPT !.twin = Twin("listenDone", "LISTEN", q.channel, queries')]

\* The callback given to query(`LISTEN "${channel}"`).
ListenDone(i, ok, cb) ==
  /\ i \in 1..Len(queries)
  /\ queries[i].kind = "LISTEN"
  /\ queries' = RemoveAt(queries, i)
  /\ IF ~ok THEN ListenFailed(queries[i], cb) ELSE ListenSucceeded(queries[i], cb)
  /\ scen' = ScenDone("LISTEN", queries[i].channel, ok)
  /\ UNCHANGED <<connection, done, teardown, attached, acquired, connecting>>
  /\ session' = SessionAfter(i, ok)
  /\ track' = TrackDone(i, last'.rep.via # "none")

\* --------------------------------------------------------------- unlisten
Unlisten(arg, cb) ==
  LET removeListeners == IF arg.obj THEN arg.removeListeners ELSE FALSE
      channel         == ToStr(arg.channel)
  IN
  IF connection = NONE
  THEN /\ last' = Step("unlisten", NONE, "notConnected", cb,
                       CallbackOrEmit(listeners, cb, "error", <<"NotConnected">>),
                       0, NoQuery)
       /\ scen' = NoScen
       /\ UNCHANGED <<connection, done, channels, listeners, teardown, attached,
                      acquired, connecting, queries, session, track>>
  ELSE IF ~IsTracked(channels, channel)
  THEN /\ listeners' = RemoveIfAsked(listeners, channel, removeListeners)
       /\ last' = [Step("unlisten", channel, "absent", cb,
                        CallbackOrEmit(listeners', cb, "unlisten", <<NONE, channel>>),
                        0, NoQuery)
                   EXCEPT !.q.removeListeners = removeListeners,
                          !.raw = arg.channel]
       /\ scen' = ScenCall("unlisten", channel, 0)
       /\ UNCHANGED <<connection, done, channels, teardown, attached, acquired,
                      connecting, queries, session, track>>
  ELSE /\ Len(queries) < MaxQueries
       /\ queries' = Append(queries,
                            NewQuery("UNLISTEN", channel, NONE, removeListeners, NONE))
       /\ last' = [Step("unlisten", channel, "issued", cb, NoReport, 1, NoQuery)
                   EXCEPT !.twin = IF InFlight(queries, "UNLISTEN", channel)
                                   THEN "pending" ELSE "none",
                          !.raw = arg.channel]
       /\ scen' = ScenCall("unlisten", channel, 1)
       /\ track' \in TrackIssue(Len(queries) + 1)
       /\ UNCHANGED <<connection, done, channels, listeners, teardown, attached,
                      acquired, connecting, session>>

\* if (err) return _callbackOrEmit(this, callback, 'error', err)
UnlistenFailed(q, cb) ==
  /\ last' = Step("unlistenDone", q.channel, "failed", cb,
                  CallbackOrEmit(listeners, cb, "error", <<"QueryError">>), 0, q)
  /\ UNCHANGED <<channels, listeners>>

\* No error: remove the channel if still present, remove the listeners if
\* asked, report.
UnlistenSucceeded(q, cb) ==
  /\ channels' = SpliceIfPresent(channels, q.channel)
  /\ listeners' = RemoveIfAsked(listeners, q.channel, q.removeListeners)
  /\ last' = [Step("unlistenDone", q.channel, "ok", cb,
                   CallbackOrEmit(listeners', cb, "unlisten", <<NONE, q.channel>>),
                   0, q)
              EXCEPT !.twin = Twin("unlistenDone", "UNLISTEN", q.channel, queries')]

\* The callback given to query(`UNLISTEN "${channel}"`).
UnlistenDone(i, ok, cb) ==
  /\ i \in 1..Len(queries)
  /\ queries[i].kind = "UNLISTEN"
  /\ queries' = RemoveAt(queries, i)
  /\ IF ~ok THEN UnlistenFailed(queries[i], cb) ELSE UnlistenSucceeded(queries[i], cb)
  /\ scen' = ScenDone("UNLISTEN", queries[i].channel, ok)
  /\ UNCHANGED <<connection, done, teardown, attached, acquired, connecting>>
  /\ session' = SessionAfter(i, ok)
  /\ track' = TrackDone(i, last'.rep.via # "none")

\* ------------------------------------------------------------------- emit
EmitEvents == {"foo", "error"}

\* An emit that tests the connection before it tests the event name.
EmitChecksConnectionFirst(event, message) ==
  /\ IF connection = NONE
     THEN /\ last' = Step("emit", event, "notConnected", FALSE,
                          EmitLocal(listeners, "error", "NotConnected"), 0, NoQuery)
          /\ UNCHANGED queries
     ELSE IF event = "error"
     THEN /\ last' = Step("emit", event, "error", FALSE,
                          EmitLocal(listeners, event, message), 0, NoQuery)
          /\ UNCHANGED queries
     ELSE /\ Len(queries) < MaxQueries
          /\ queries' = Append(queries,
                               NewQuery("NOTIFY", event, NONE, FALSE, Stringify(message)))
          /\ last' = [Step("emit", event, "issued", FALSE, NoReport, 1, NoQuery)
                      EXCEPT !.payload = Stringify(message)]
  /\ scen' = NoScen
  /\ UNCHANGED <<connection, done, channels, listeners, teardown, attached,
                 acquired, connecting>>
  /\ UNCHANGED <<session, track>>

Emit(event, message) ==
  /\ IF event = "error"
     THEN /\ last' = Step("emit", event, "error", FALSE,
                          EmitLocal(listeners, event, message), 0, NoQuery)
          /\ UNCHANGED queries
     ELSE IF connection = NONE
     THEN /\ last' = Step("emit", event, "notConnected", FALSE,
                          EmitLocal(listeners, "error", "NotConnected"), 0, NoQuery)
          /\ UNCHANGED queries
     ELSE /\ Len(queries) < MaxQueries
          /\ queries' = Append(queries,
                               NewQuery("NOTIFY", event, NONE, FALSE, Stringify(message)))
          /\ last' = [Step("emit", event, "issued", FALSE, NoReport, 1, NoQuery)
                      EXCEPT !.payload = Stringify(message)]
  /\ scen' = NoScen
  /\ UNCHANGED <<connection, done, channels, listeners, teardown, attached,
                 acquired, connecting>>
  /\ UNCHANGED <<session, track>>

\* A completion that fires the event locally once pg_notify has succeeded.
NotifyDoneEmitsEvent(i, ok) ==
  /\ i \in 1..Len(queries)
  /\ queries[i].kind = "NOTIFY"
  /\ LET q == queries[i] IN
     /\ queries' = RemoveAt(queries, i)
     /\ last' = IF ~ok
                THEN Step("emitDone", q.channel, "failed", FALSE,
                          EmitLocal(listeners, "error", "QueryError"), 0, q)
                ELSE Step("emitDone", q.channel, "ok", FALSE,
                          EmitLocal(listeners, q.channel, NONE), 0, q)
  /\ scen' = NoScen
  /\ UNCHANGED <<connection, done, channels, listeners, teardown, attached,
                 acquired, connecting>>
  /\ track' = TrackDone(i, FALSE)
  /\ UNCHANGED session

\* The callback given to query('SELECT pg_notify($1, $2)', params).
NotifyDone(i, ok) ==
  /\ i \in 1..Len(queries)
  /\ queries[i].kind = "NOTIFY"
  /\ LET q == queries[i] IN
     /\ queries' = RemoveAt(queries, i)
     /\ last' = IF ~ok
                THEN Step("emitDone", q.channel, "failed", FALSE,
                          EmitLocal(listeners, "error", "QueryError"), 0, q)
                ELSE Step("emitDone", q.channel, "ok", FALSE, NoReport, 0, q)
  /\ scen' = NoScen
  /\ UNCHANGED <<connection, done, channels, listeners, teardown, attached,
                 acquired, connecting>>
  /\ track' = TrackDone(i, FALSE)
  /\ UNCHANGED session

\* ------------------------------------------------------------------ close
\* A close that leaves its handlers on the connection.
CloseKeepsHandlers ==
  /\ IF connection = NONE
     THEN /\ last' = Step("close", NONE, "notConnected", FALSE, NoReport, 0, NoQuery)
          /\ UNCHANGED <<connection, done, channels, listeners, attached, acquired>>
     ELSE /\ acquired' = IF done # NONE THEN acquired \ {done} ELSE acquired
          /\ listeners' = NoListeners
          /\ attached' = attached
          /\ channels' = <<>>
          /\ connection' = NONE
          /\ done' = NONE
          /\ last' = [Step("close", NONE, "closed", FALSE, NoReport, 0, NoQuery)
                      EXCEPT !.released = done]
  /\ scen' = NoScen
  /\ UNCHANGED <<teardown, connecting, queries>>
  /\ UNCHANGED <<session, track>>

\* A close without the early return for an instance that is not connected.
CloseWithoutGuard ==
  /\ acquired' = IF done # NONE THEN acquired \ {done} ELSE acquired
  /\ listeners' = NoListeners
  /\ attached' = attached \ {teardown}
  /\ channels' = <<>>
  /\ connection' = NONE
  /\ done' = NONE
  /\ last' = [Step("close", NONE, IF connection = NONE THEN "notConnected" ELSE "closed",
                   FALSE, NoReport, 0, NoQuery)
              EXCEPT !.released = done]
  /\ scen' = NoScen
  /\ UNCHANGED <<teardown, connecting, queries>>
  /\ UNCHANGED <<session, track>>

\* A close that drops the queries in flight with their callbacks.
CloseDropsQueries ==
  /\ IF connection = NONE
     THEN /\ last' = Step("close", NONE, "notConnected", FALSE, NoReport, 0, NoQuery)
          /\ UNCHANGED <<connection, done, channels, listeners, attached, acquired,
                         queries>>
     ELSE /\ acquired' = IF done # NONE THEN acquired \ {done} ELSE acquired
          /\ listeners' = NoListeners
          /\ attached' = attached \ {teardown}
          /\ channels' = <<>>
          /\ connection' = NONE
          /\ done' = NONE
          /\ queries' = <<>>
          /\ last' = [Step("close", NONE, "closed", FALSE, NoReport, 0, NoQuery)
                      EXCEPT !.released = done]
  /\ scen' = NoScen
  /\ UNCHANGED <<teardown, connecting>>
  /\ UNCHANGED <<session, track>>

Close ==
  /\ IF connection = NONE
     THEN /\ last' = Step("close", NONE, "notConnected", FALSE, NoReport, 0, NoQuery)
          /\ UNCHANGED <<connection, done, channels, listeners, attached, acquired>>
     ELSE /\ acquired' = IF done # NONE THEN acquired \ {done} ELSE acquired
          /\ listeners' = NoListeners
          /\ attached' = attached \ {teardown}
          /\ channels' = <<>>
          /\ connection' = NONE
          /\ done' = NONE
          /\ last' = [Step("close", NONE, "closed", FALSE, NoReport, 0, NoQuery)
                      EXCEPT !.released = done]
  /\ scen' = NoScen
  /\ UNCHANGED <<teardown, connecting, queries>>
  /\ UNCHANGED <<session, track>>

\* ------------------------------------------------- connection event handlers
\* connectionOnNotification: parse the payload, and in the finally block emit
\* the event; an exception of JSON.parse propagates once the block has run.
Notification(h, channel, payload) ==
  /\ h \in attached
  /\ last' = [Step("notification", channel,
                   IF ParseOk(payload) THEN "parsed" ELSE "raw", FALSE,
                   EmitLocal(listeners, channel, NONE), 0, NoQuery)
              EXCEPT !.payload = IF ParseOk(payload) THEN Parse(payload) ELSE payload,
                     !.threw = @ \/ ~ParseOk(payload)]
  /\ scen' = NoScen
  /\ UNCHANGED <<connection, done, channels, listeners, teardown, attached,
                 acquired, connecting, queries>>
  /\ UNCHANGED <<session, track>>

\* connectionOnError: forward the connection's error as a local 'error' event.
ConnectionError(h) ==
  /\ h \in attached
  /\ last' = Step("connectionError", NONE, "error", FALSE,
                  EmitLocal(listeners, "error", "ConnectionError"), 0, NoQuery)
  /\ scen' = NoScen
  /\ UNCHANGED <<connection, done, channels, listeners, teardown, attached,
                 acquired, connecting, queries>>
  /\ UNCHANGED <<session, track>>

\* ------------------------------------------------------ the caller's on()
OnEvents == ChannelNames \cup {"error"}

On(event, l) ==
  /\ ListenerRoom
  /\ listeners' = [listeners EXCEPT ![event] = Append(@, l)]
  /\ last' = Step("on", event, "on", FALSE, NoReport, 0, NoQuery)
  /\ scen' = NoScen
  /\ UNCHANGED <<connection, done, channels, teardown, attached, acquired,
                 connecting, queries>>
  /\ UNCHANGED <<session, track>>

\* ------------------------------------------------------------ specification
Next ==
  \/ \E cb \in BOOLEAN : Connect(cb)
  \/ \E ok \in BOOLEAN, cb \in BOOLEAN : ConnectDone(ok, cb)
  \/ \E arg \in ListenArgs, cb \in BOOLEAN : Listen(arg, cb)
  \/ \E i \in 1..MaxQueries, ok \in BOOLEAN, cb \in BOOLEAN : ListenDone(i, ok, cb)
  \/ \E arg \in UnlistenArgs, cb \in BOOLEAN : Unlisten(arg, cb)
  \/ \E i \in 1..MaxQueries, ok \in BOOLEAN, cb \in BOOLEAN : UnlistenDone(i, ok, cb)
  \/ \E event \in EmitEvents, m \in Messages : Emit(event, m)
  \/ \E i \in 1..MaxQueries, ok \in BOOLEAN : NotifyDone(i, ok)
  \/ Close
  \/ \E h \in Handles, c \in ChannelNames, p \in Payloads : Notification(h, c, p)
  \/ \E h \in Handles : ConnectionError(h)
  \/ \E e \in OnEvents, l \in Listeners : On(e, l)

Spec == Init /\ [][Next]_vars

\* The connection's life alone, with connect() calls that overlap: connect,
\* close, the pool's answers, and what the connections then send.
NextLifecycle ==
  \/ \E cb \in BOOLEAN : ConnectUpTo(cb, MaxRacing)
  \/ \E ok \in BOOLEAN, cb \in BOOLEAN : ConnectDone(ok, cb)
  \/ Close
  \/ \E h \in Handles, c \in ChannelNames, p \in Payloads : Notification(h, c, p)
  \/ \E h \in Handles : ConnectionError(h)
  \/ \E e \in OnEvents, l \in Listeners : On(e, l)

SpecLifecycle == Init /\ [][NextLifecycle]_vars

\* One connection session: an instance constructed with a connected client,
\* its listen, unlisten and emit calls and their completions, and the
\* database session followed beside it.
InitSession ==
  /\ connection = ExtHandle
  /\ teardown = ExtHandle
  /\ attached = {ExtHandle}
  /\ done = NONE
  /\ channels = <<>>
  /\ listeners = NoListeners
  /\ acquired = {}
  /\ connecting = 0
  /\ queries = <<>>
  /\ last = Step("new", NONE, "new", FALSE, NoReport, 0, NoQuery)
  /\ scen = NoScen
  /\ session = NewSession
  /\ track = NoTrack

NextSession ==
  \/ \E arg \in ListenArgs, cb \in BOOLEAN : Listen(arg, cb)
  \/ \E i \in 1..MaxQueries, ok \in BOOLEAN, cb \in BOOLEAN : ListenDone(i, ok, cb)
  \/ \E arg \in UnlistenArgs, cb \in BOOLEAN : Unlisten(arg, cb)
  \/ \E i \in 1..MaxQueries, ok \in BOOLEAN, cb \in BOOLEAN : UnlistenDone(i, ok, cb)
  \/ \E event \in EmitEvents, m \in Messages : Emit(event, m)
  \/ \E i \in 1..MaxQueries, ok \in BOOLEAN : NotifyDone(i, ok)

SpecSession == InitSession /\ [][NextSession]_vars

\* An instance constructed with a connected client, with one listen or
\* unlisten call followed from the issue of its command to its report, under
\* a connection that completes every command it was given.
InitLive ==
  /\ connection = ExtHandle
  /\ teardown = ExtHandle
  /\ attached = {ExtHandle}
  /\ done = NONE
  /\ channels = <<>>
  /\ listeners = NoListeners
  /\ acquired = {}
  /\ connecting = 0
  /\ queries = <<>>
  /\ last = Step("new", NONE, "new", FALSE, NoReport, 0, NoQuery)
  /\ scen = NoScen
  /\ session = NoSession
  /\ track = IdleTrack

\* The connection calls the callback of query i.
Complete(i) ==
  \E ok \in BOOLEAN, cb \in BOOLEAN : ListenDone(i, ok, cb) \/ UnlistenDone(i, ok, cb)

NextLive ==
  \/ \E arg \in ListenArgs, cb \in BOOLEAN : Listen(arg, cb)
  \/ \E arg \in UnlistenArgs, cb \in BOOLEAN : Unlisten(arg, cb)
  \/ \E i \in 1..MaxQueries : Complete(i)
  \/ Close

SpecLive ==
  InitLive /\ [][NextLive]_vars /\ \A i \in 1..MaxQueries : WF_vars(Complete(i))

TypeOK ==
  /\ connection \in Handles \cup {NONE}
  /\ done \in PoolHandles \cup {NONE}
  /\ \A i \in 1..Len(channels) : channels[i] \in ChannelNames
  /\ Len(queries) <= MaxQueries
  /\ connecting \in 0..MaxRacing
  /\ TotalListeners(listeners) <= MaxListeners

\* ------------------------------------------------------------------ claims
Success(rep, c) == rep.via \in {"callback", "event"} /\ rep.err = NONE /\ rep.result = c

\* C1: when two listen(c) calls were in flight together and both LISTEN
\* commands succeed, each reports success with channel c and no error, and
\* the registry then contains c exactly once.
C1_ListenRace ==
  (last.op = "listenDone" /\ last.path = "ok" /\ last.twin # "none")
    => /\ Success(last.rep, last.chan)
       /\ ~last.threw
       /\ Count(channels, last.chan) = 1

\* Both LISTEN "foo" commands of a race have completed with success.
C1_Witness ==
  /\ last.op = "listenDone" /\ last.path = "ok" /\ last.twin = "done"
  /\ last.chan = "foo" /\ Count(channels, "foo") = 1

\* C2: when two unlisten(c) calls for a registered channel were in flight
\* together and both UNLISTEN commands succeed, each reports success with
\* channel c and no error, and at each report the registry does not contain c.
C2_UnlistenRace ==
  (last.op = "unlistenDone" /\ last.path = "ok" /\ last.twin # "none")
    => /\ Success(last.rep, last.chan)
       /\ ~last.threw
       /\ Count(channels, last.chan) = 0

\* Both UNLISTEN commands of a race have completed with success.
C2_Witness ==
  /\ last.op = "unlistenDone" /\ last.path = "ok" /\ last.twin = "done"
  /\ Count(channels, last.chan) = 0

\* C3: in every reachable state each channel name appears at most once in
\* the registry.
C3_RegistryUnique == \A c \in ChannelNames : Count(channels, c) <= 1

\* The second LISTEN of a race completed on a registry already holding its
\* channel, next to another channel.
C3_Witness ==
  /\ last.op = "listenDone" /\ last.path = "ok" /\ last.twin = "done"
  /\ Len(channels) = 2

\* C4 as claimed: a listen(c) call on a connected instance made after an
\* earlier listen(c), whether that one's LISTEN is still in flight or its
\* result is already in the registry, issues no command.
C4_SecondListenNeverIssues ==
  (last.op = "listen" /\ connection # NONE
     /\ (Count(channels, last.chan) > 0 \/ last.twin = "pending"))
    => last.issued = 0

\* C4 as amended: a listen(c) call on a connected instance issues no command
\* exactly when c is in the registry at the call; otherwise it issues one
\* LISTEN for c, also while an earlier LISTEN for c is in flight.  Every
\* successful LISTEN completion leaves c in the registry exactly once.
C4_SecondListen ==
  /\ (last.op = "listen" /\ connection # NONE)
       => /\ last.issued = IF Count(channels, last.chan) > 0 THEN 0 ELSE 1
          /\ last.issued = 1 =>
               /\ queries # <<>>
               /\ queries[Len(queries)].kind = "LISTEN"
               /\ queries[Len(queries)].channel = last.chan
  /\ (last.op = "listenDone" /\ last.path = "ok")
       => Count(channels, last.chan) = 1

\* A second listen(c) was made while the first LISTEN for c is in flight.
C4_Witness ==
  /\ last.op = "listen" /\ last.twin = "pending" /\ last.issued = 1
  /\ Len(queries) = 2 /\ Count(channels, last.chan) = 0

\* C5 as claimed: the sequence listen(c), unlisten(c), listen(c),
\* unlisten(c) from an empty registry leaves the registry empty and issues
\* exactly two commands.
C5_TwoCommands ==
  scen.step = 8 => (channels = <<>> /\ scen.n = 2)

\* C5 as amended: the sequence, each call made once the previous one has
\* reported, leaves the registry empty and issues exactly four commands.
C5_FourCommands ==
  scen.step = 8 => (channels = <<>> /\ scen.n = 4)

\* The fourth call of the sequence on channel "null" has reported.
C5_Witness ==
  /\ scen.step = 8 /\ scen.c = "null"
  /\ last.op = "unlistenDone" /\ last.path = "ok"

\* C6: listen on a connected instance for a channel already in the registry
\* issues no command, leaves the registry unchanged, attaches the supplied
\* listener function if there is one, and reports success with the channel.
C6_ListenPresent ==
  [][ (last'.op = "listen" /\ connection # NONE /\ Count(channels, last'.chan) > 0)
        => /\ queries' = queries
           /\ channels' = channels
           /\ listeners' = IF last'.q.listener \in Listeners
                           THEN [listeners EXCEPT ![last'.chan] =
                                   Append(@, last'.q.listener)]
                           ELSE listeners
           /\ Success(last'.rep, last'.chan)
           /\ last'.issued = 0 ]_vars

\* A listener was supplied with a channel already in the registry.
C6_Witness ==
  /\ last.op = "listen" /\ last.path = "present" /\ last.q.listener \in Listeners
  /\ Count(channels, last.chan) = 1
  /\ Len(listeners[last.chan]) = 2

\* C7: unlisten on a connected instance for a channel not in the registry
\* issues no command, leaves the registry unchanged and reports success with
\* the channel; it removes the channel's listeners if removeListeners is set
\* and leaves them attached otherwise.
C7_UnlistenAbsent ==
  [][ (last'.op = "unlisten" /\ connection # NONE /\ Count(channels, last'.chan) = 0)
        => /\ queries' = queries
           /\ channels' = channels
           /\ listeners' = IF last'.q.removeListeners
                           THEN [listeners EXCEPT ![last'.chan] = <<>>]
                           ELSE listeners
           /\ Success(last'.rep, last'.chan)
           /\ last'.issued = 0 ]_vars

\* unlisten without removeListeners on an untracked channel with listeners.
C7_Witness ==
  /\ last.op = "unlisten" /\ last.path = "absent" /\ ~last.q.removeListeners
  /\ Count(channels, last.chan) = 0
  /\ Len(listeners[last.chan]) = 2

\* C8: a failed LISTEN or UNLISTEN reports the error with no channel result
\* and leaves the registry and the listener table as they were.
C8_FailureChangesNothing ==
  [][ (last'.op \in {"listenDone", "unlistenDone"} /\ last'.path = "failed")
        => /\ channels' = channels
           /\ listeners' = listeners
           /\ last'.rep.err = "QueryError"
           /\ last'.rep.result = NONE
           /\ last'.rep.via = IF last'.cb THEN "callback" ELSE "event" ]_vars

\* A LISTEN carrying a listener failed.
C8_Witness ==
  /\ last.op = "listenDone" /\ last.path = "failed"
  /\ last.q.listener \in Listeners
  /\ Count(channels, last.chan) = 0 /\ listeners[last.chan] = <<>>

\* C9: without a connection handle, listen, unlisten and emit of an event
\* other than 'error' issue no command, leave registry and listener table
\* unchanged and deliver the not-connected error: to the callback if one was
\* given, otherwise as a local 'error' event.
C9_NotConnected ==
  [][ (connection = NONE
       /\ (last'.op \in {"listen", "unlisten"}
           \/ (last'.op = "emit" /\ last'.chan # "error")))
        => /\ queries' = queries
           /\ channels' = channels
           /\ listeners' = listeners
           /\ last'.issued = 0
           /\ last'.rep.err = "NotConnected"
           /\ last'.rep.result = NONE
           /\ IF last'.op # "emit" /\ last'.cb
              THEN last'.rep.via = "callback"
              ELSE last'.rep.via = "event" /\ last'.rep.event = "error" ]_vars

\* unlisten with a callback on an instance without a connection.
C9_Witness ==
  /\ connection = NONE
  /\ last.op = "unlisten" /\ last.cb /\ last.rep.via = "callback"
  /\ last.rep.err = "NotConnected"

PublicOps == {"connect", "listen", "unlisten", "emit", "close"}

\* C10: no public operation throws synchronously to its caller.
C10_NoSyncThrow == last.op \in PublicOps => ~last.threw

\* C11: a notification whose payload cannot be deserialized fires the raw
\* payload under its channel name, and the decode failure does not leave the
\* notification handler.
C11_DecodeSwallowed ==
  (last.op = "notification" /\ last.path = "raw")
    => /\ last.rep.via = "event" /\ last.rep.event = last.chan
       /\ last.payload = "not json"
       /\ ~last.threw

\* C12: emit('error', err) fires a local 'error' event carrying err and
\* issues no command, with or without a connection handle.
C12_EmitError ==
  [][ (last'.op = "emit" /\ last'.chan = "error")
        => /\ queries' = queries
           /\ last'.issued = 0
           /\ last'.rep.via = "event" /\ last'.rep.event = "error"
           /\ last'.rep.err \in Messages
           /\ last'.rep.delivered = Len(listeners["error"])
           /\ channels' = channels /\ listeners' = listeners
           /\ connection' = connection ]_vars

\* emit('error', err) reached an 'error' listener of an unconnected instance.
C12_Witness ==
  /\ last.op = "emit" /\ last.chan = "error" /\ connection = NONE
  /\ last.rep.delivered = 1 /\ last.rep.err = "msg"

\* C13: emit(e, msg) with e other than 'error' on a connected instance issues
\* one pg_notify command with channel e and the serialized msg and fires no
\* event; the command's failure fires a local 'error' event with the error
\* and no e event, its success fires no event.
C13_EmitNotify ==
  [][ /\ (last'.op = "emit" /\ last'.chan # "error" /\ connection # NONE)
           => /\ \E m \in Messages :
                   queries' = Append(queries,
                     [kind |-> "NOTIFY", channel |-> last'.chan, listener |-> NONE,
                      removeListeners |-> FALSE, payload |-> Stringify(m)])
              /\ last'.issued = 1
              /\ last'.rep.via = "none"
              /\ listeners' = listeners /\ channels' = channels
      /\ (last'.op = "emitDone")
           => /\ Len(queries') = Len(queries) - 1
              /\ listeners' = listeners /\ channels' = channels
              /\ IF last'.path = "failed"
                 THEN /\ last'.rep.via = "event" /\ last'.rep.event = "error"
                      /\ last'.rep.err = "QueryError"
                 ELSE last'.rep.via = "none" ]_vars

\* A pg_notify for "foo" failed on an instance with a listener on "foo" and
\* one on 'error'.
C13_Witness ==
  /\ last.op = "emitDone" /\ last.path = "failed" /\ last.chan = "foo"
  /\ Len(listeners["foo"]) = 1 /\ last.rep.delivered = 1

\* C14: close() on an instance holding a connection handle clears the handle,
\* empties the registry, removes every local listener, detaches its handlers
\* from the handle, and calls the release function once if the handle came
\* from the pool and not at all if it was given to the constructor.
C14_CloseConnected ==
  [][ (last'.op = "close" /\ connection # NONE)
        => /\ connection' = NONE
           /\ done' = NONE
           /\ channels' = <<>>
           /\ \A e \in EventNames : listeners'[e] = <<>>
           /\ connection \notin attached'
           /\ IF connection \in PoolHandles
              THEN last'.released = connection /\ acquired' = acquired \ {connection}
              ELSE last'.released = NONE /\ acquired' = acquired
           /\ queries' = queries ]_vars

\* A pool connection was closed while a query was in flight.
C14_Witness ==
  /\ last.op = "close" /\ last.path = "closed" /\ last.released \in PoolHandles
  /\ queries # <<>> /\ attached = {}

\* C15: close() on an instance without a connection handle changes nothing
\* and does not throw.
C15_CloseNotConnected ==
  [][ (last'.op = "close" /\ connection = NONE)
        => /\ UNCHANGED <<connection, done, channels, listeners, teardown,
                          attached, acquired, connecting, queries>>
           /\ last'.released = NONE
           /\ ~last'.threw ]_vars

\* close() on an unconnected instance that has listeners.
C15_Witness ==
  /\ last.op = "close" /\ last.path = "notConnected" /\ connection = NONE
  /\ TotalListeners(listeners) = 2

\* C16: connect() on an instance holding a connection handle reports success
\* at once, to the callback or as a 'connect' event, asks the pool for
\* nothing, and leaves handle, release function and registry unchanged.
C16_ConnectPresent ==
  [][ (last'.op = "connect" /\ connection # NONE)
        => /\ connecting' = connecting
           /\ UNCHANGED <<connection, done, channels, acquired, attached, listeners>>
           /\ last'.rep.err = NONE
           /\ IF last'.cb
              THEN last'.rep.via = "callback"
              ELSE last'.rep.via = "event" /\ last'.rep.event = "connect" ]_vars

\* connect() without a callback on a connected instance with a registry.
C16_Witness ==
  /\ last.op = "connect" /\ last.path = "present" /\ ~last.cb
  /\ connection # NONE /\ channels # <<>>

\* C17: an error reported by the connection handle is delivered as a local
\* 'error' event carrying it and never escapes as an exception.
C17_ConnectionErrorContained ==
  last.op = "connectionError"
    => /\ last.rep.via = "event" /\ last.rep.event = "error"
       /\ last.rep.err = "ConnectionError"
       /\ ~last.threw

\* The string form of a channel argument.
StringForm(raw) == IF raw.t = "string" THEN raw.v ELSE raw.t

\* C18: listen and unlisten use the string form of the channel argument for
\* the registry test, the registry entry, the command and the reported name.
C18_Coercion ==
  [][ /\ (last'.op \in {"listen", "unlisten"} /\ connection # NONE)
           => LET c == StringForm(last'.raw) IN
              /\ last'.chan = c
              /\ (last'.issued = 1)
                   <=> ((Count(channels, c) > 0) <=> (last'.op = "unlisten"))
              /\ last'.issued = 1 =>
                   /\ Len(queries') = Len(queries) + 1
                   /\ queries'[Len(queries')].channel = c
                   /\ queries'[Len(queries')].kind =
                        IF last'.op = "listen" THEN "LISTEN" ELSE "UNLISTEN"
              /\ last'.issued = 0 => last'.rep.result = c
      /\ (last'.op \in {"listenDone", "unlistenDone"} /\ last'.path = "ok")
           => /\ last'.chan = last'.q.channel
              /\ last'.rep.result = last'.chan
              /\ Count(channels', last'.chan) =
                   IF last'.op = "listenDone" THEN 1 ELSE 0 ]_vars

\* unlisten(null) issued its UNLISTEN for the entry "null" that an earlier
\* listen registered.
C18_Witness ==
  /\ last.op = "unlisten" /\ last.raw.t = "null" /\ last.issued = 1
  /\ scen.step = 3 /\ scen.c = "null"
  /\ Count(channels, "null") = 1
  /\ queries[Len(queries)].channel = "null"

ReportingOps ==
  {"connect", "connectDone", "listen", "listenDone", "unlisten", "unlistenDone"}

\* The event that reports the success of an operation.
OpEvent(op) ==
  IF op \in {"connect", "connectDone"} THEN "connect"
  ELSE IF op \in {"listen", "listenDone"} THEN "listen"
  ELSE "unlisten"

\* C19: connect, listen and unlisten deliver each result one way: to the
\* callback if one was given, with no event fired; otherwise as the
\* 'connect', 'listen' or 'unlisten' event (the last two with the channel)
\* on success and as an event carrying the error on failure.
C19_OneReportPath ==
  last.op \in ReportingOps
    => /\ (last.rep.via = "none") <=> (last.path \in {"acquiring", "issued"})
       /\ last.rep.via # "none" =>
            IF last.cb
            THEN /\ last.rep.via = "callback"
                 /\ last.rep.event = NONE /\ last.rep.delivered = 0
            ELSE /\ last.rep.via = "event"
                 /\ last.rep.event =
                      IF last.rep.err = NONE THEN OpEvent(last.op) ELSE "error"
                 /\ (last.rep.err = NONE /\ OpEvent(last.op) # "connect")
                      => last.rep.result = last.chan

\* A LISTEN given a callback succeeded on an instance with an 'error' listener.
C19_Witness ==
  /\ last.op = "listenDone" /\ last.path = "ok" /\ last.cb
  /\ last.rep.via = "callback" /\ last.rep.result = last.chan
  /\ Len(listeners["error"]) = 1

\* C20: issuing a LISTEN changes neither the registry nor the listener table;
\* a channel enters the registry, and a listener given to listen() for a
\* channel not in the registry is attached, only in the step that observes
\* the command's success, which then reports it.
C20_InsertAtSuccess ==
  [][ /\ (last'.op = "listen" /\ last'.issued = 1)
           => channels' = channels /\ listeners' = listeners
      /\ \A c \in ChannelNames :
           Count(channels', c) > Count(channels, c)
             => last'.op = "listenDone" /\ last'.path = "ok" /\ last'.chan = c
      /\ \A e \in EventNames :
           Len(listeners'[e]) > Len(listeners[e])
             => \/ last'.op = "on"
                \/ last'.op = "listen" /\ last'.path = "present" /\ last'.chan = e
                \/ /\ last'.op = "listenDone" /\ last'.path = "ok" /\ last'.chan = e
                   /\ last'.q.listener \in Listeners
      /\ (last'.op = "listenDone" /\ last'.path = "ok")
           => /\ channels' = IF Count(channels, last'.chan) = 0
                             THEN Append(channels, last'.chan) ELSE channels
              /\ listeners' = IF last'.q.listener \in Listeners
                              THEN [listeners EXCEPT ![last'.chan] =
                                      Append(@, last'.q.listener)]
                              ELSE listeners
              /\ Success(last'.rep, last'.chan) ]_vars

\* A LISTEN carrying a listener is in flight: its channel is not in the
\* registry and has no listener.
C20_Witness ==
  /\ last.op = "listen" /\ last.issued = 1
  /\ queries[Len(queries)].listener \in Listeners
  /\ Count(channels, last.chan) = 0 /\ listeners[last.chan] = <<>>

\* C21: whenever no connection handle is present the registry is empty and
\* no listener is attached: a LISTEN that was in flight when close() ran
\* adds nothing when it completes.
C21_NoHandleNoRegistry ==
  [][ connection' = NONE
        => /\ channels' = <<>>
           /\ (last'.op = "listenDone" => listeners' = listeners) ]_vars

\* C23: when listen({channel: c, listener: f}) is called while the UNLISTEN
\* of an earlier unlisten(c) is in flight and both report success, then with
\* no command left in flight c is in the registry and f is attached to c.
C23_NoStaleUnlisten ==
  [][ ( /\ last.op = "listen" /\ last.path = "present"
        /\ last.q.listener \in Listeners
        /\ Success(last.rep, last.chan)
        /\ last'.op = "unlistenDone" /\ last'.path = "ok"
        /\ last'.chan = last.chan
        /\ Success(last'.rep, last'.chan)
        /\ queries' = <<>> )
        => /\ Count(channels', last.chan) = 1
           /\ \E i \in 1..Len(listeners'[last.chan]) :
                listeners'[last.chan][i] = last.q.listener ]_vars

\* C25: under every interleaving of connect(), close() and the pool's
\* answers at most one pool client is acquired and not released, and after a
\* close() that found a handle no client remains acquired or carries this
\* instance's handlers.
C25_OneHandle ==
  /\ Cardinality(acquired) <= 1
  /\ (last.op = "close" /\ last.path = "closed")
       => (acquired = {} /\ attached = {})

\* The channels of the registry, as a set.
Registered == { channels[i] : i \in 1..Len(channels) }

ListenInFlight ==
  \E i \in 1..Len(queries) : queries[i].kind \in {"LISTEN", "UNLISTEN"}

\* C22: within one connection session in which the database completes
\* LISTEN and UNLISTEN commands in the order issued, whenever none of them is
\* in flight the registry holds exactly the channels the session listens on.
C22_RegistryIsSession ==
  (session.on /\ session.ordered /\ ~ListenInFlight)
    => Registered = session.listening

\* "foo" was listened to and unlistened again while "null" stayed: the
\* session listens on "null" alone and nothing is in flight.
C22_Witness ==
  /\ session.on /\ session.ordered /\ queries = <<>>
  /\ last.op = "unlistenDone" /\ last.path = "ok" /\ last.chan = "foo"
  /\ session.listening = {"null"} /\ channels = <<"null">>

\* C24: every listen and unlisten call reports exactly once: within the call
\* when it issues no command, and otherwise not within the call but, given a
\* connection that completes every command, eventually and once when its
\* command completes, also when close() runs in between.
C24_ReportsOnce ==
  /\ [](last.op \in {"listen", "unlisten"}
          => (last.rep.via = "none") = (last.issued = 1))
  /\ [](track.phase = "reported" => track.reports = 1)
  /\ (track.phase = "waiting" ~> track.phase = "reported")

\* The followed call reported after close() had run with its command in
\* flight.
C24_Witness ==
  /\ track.phase = "reported" /\ track.reports = 1
  /\ last.op \in {"listenDone", "unlistenDone"}
  /\ connection = NONE /\ last.cb

====
